---- MODULE Spec2Model ----
(***************************************************************************)
(* A model of ppadb/command/transport/__init__.py: the Transport command   *)
(* layer (shell, shell_v2, the connection-scoped commands and the boot     *)
(* readiness poller).  One call of one operation is modelled at a time:    *)
(* Init chooses the operation and its arguments, the actions are the       *)
(* statements of that operation.                                           *)
(*                                                                         *)
(* Bytes are naturals 0..255, byte strings are sequences of bytes, text is *)
(* a sequence of Unicode code points.                                      *)
(***************************************************************************)
EXTENDS Integers, Sequences, FiniteSets, TLC

VARIABLES
    op,                     \* the operation called
    handler,                \* shell/shell_v2: a handler was supplied
    separate_stdout_stderr, \* shell_v2: the separate_stdout_stderr argument
    args,                   \* the other arguments of the call (a record)
    pc,                     \* the statement the call is at
    status,                 \* "running", "returned" or "raised"
    retval,                 \* the value returned (a record with a kind)
    error,                  \* the exception raised ("" when none)
    conns,                  \* the connections the call created or was given
    stream,                 \* shell_v2: bytes the peer sent and the call has not read
    eof,                    \* shell_v2: the peer closed the stream
    frames,                 \* shell_v2: the complete frames the peer sent (history)
    tail,                   \* shell_v2: the truncated frame the peer ended with (history)
    id_,                    \* shell_v2 locals
    length,
    data,
    output,
    stdout,
    stderr,
    exit_code,
    shortRead,              \* shell_v2: the last read returned fewer bytes than asked (history)
    now,                    \* the wall clock (time.time())
    timeout,                \* wait_boot_complete arguments and locals
    timedelta,
    end_time,
    result,
    attempts,               \* wait_boot_complete: queries started (history)
    lateAttempts,           \* queries started with the clock already past end_time (history)
    sleeps,                 \* wait_boot_complete: time.sleep calls (history)
    outcomes                \* how the finished queries ended (history)

vars == <<op, handler, separate_stdout_stderr, args, pc, status, retval, error, conns,
          stream, eof, frames, tail, id_, length, data, output, stdout, stderr,
          exit_code, shortRead, now, timeout, timedelta, end_time, result,
          attempts, lateAttempts, sleeps, outcomes>>

v2vars == <<stream, eof, frames, tail, id_, length, data, output, stdout, stderr,
            exit_code, shortRead>>

wbcvars == <<now, timeout, timedelta, end_time, result, attempts, lateAttempts,
             sleeps, outcomes>>

argvars == <<op, handler, separate_stdout_stderr, args>>

(***************************************************************************)
(* Bounds of the model.                                                    *)
(***************************************************************************)
MaxFrames == 2

(***************************************************************************)
(* class ShellProtocolTypes                                                *)
(***************************************************************************)
STDIN == 0
STDOUT == 1
STDERR == 2
EXIT == 3
CLOSE_STDIN == 4
WINDOW_SIZE_CHANGE == 5
INVALID == 255

FrameIds == {STDIN, STDOUT, STDERR, EXIT, CLOSE_STDIN, WINDOW_SIZE_CHANGE, INVALID}

(***************************************************************************)
(* Byte strings and text.                                                  *)
(***************************************************************************)
Take(s, n) == SubSeq(s, 1, IF n < Len(s) THEN n ELSE Len(s))

Drop(s, n) == SubSeq(s, (IF n < Len(s) THEN n ELSE Len(s)) + 1, Len(s))

\* int.from_bytes(data, "big"): the byte order a slip would use.
RECURSIVE MutFromBytesBig(_)
MutFromBytesBig(b) ==
    IF b = <<>> THEN 0
    ELSE b[Len(b)] + 256 * MutFromBytesBig(SubSeq(b, 1, Len(b) - 1))

\* int.from_bytes(data, "little")
RECURSIVE FromBytesLittle(_)
FromBytesLittle(b) ==
    IF b = <<>> THEN 0 ELSE b[1] + 256 * FromBytesLittle(Tail(b))

\* The 4-byte little-endian length field of a frame, as the peer writes it.
ToBytesLittle4(n) ==
    <<n % 256, (n \div 256) % 256, (n \div 65536) % 256, (n \div 16777216) % 256>>

Utf8Error == <<-1>>

\* bytes.decode("utf-8") for one- and two-byte sequences: the text, or
\* Utf8Error where Python raises UnicodeDecodeError.
RECURSIVE Utf8Decode(_)
Utf8Decode(b) ==
    IF b = <<>> THEN <<>>
    ELSE IF b[1] < 128
         THEN LET rest == Utf8Decode(Tail(b))
              IN  IF rest = Utf8Error THEN Utf8Error ELSE <<b[1]>> \o rest
    ELSE IF b[1] >= 194 /\ b[1] <= 223 /\ Len(b) >= 2 /\ b[2] >= 128 /\ b[2] <= 191
         THEN LET rest == Utf8Decode(SubSeq(b, 3, Len(b)))
              IN  IF rest = Utf8Error THEN Utf8Error
                  ELSE <<(b[1] - 192) * 64 + (b[2] - 128)>> \o rest
    ELSE Utf8Error

\* str.strip(): the whitespace of ASCII (and U+001C..U+001F, U+0085, U+00A0).
Whitespace == {9, 10, 11, 12, 13, 28, 29, 30, 31, 32, 133, 160}

RECURSIVE LStrip(_)
LStrip(t) ==
    IF t # <<>> /\ t[1] \in Whitespace THEN LStrip(Tail(t)) ELSE t

RECURSIVE RStrip(_)
RStrip(t) ==
    IF t # <<>> /\ t[Len(t)] \in Whitespace
    THEN RStrip(SubSeq(t, 1, Len(t) - 1)) ELSE t

Strip(t) == LStrip(RStrip(t))

\* `phrase in text`
Contains(text, phrase) ==
    \E i \in 0..(Len(text) - Len(phrase)) :
        SubSeq(text, i + 1, i + Len(phrase)) = phrase

(***************************************************************************)
(* The Connection capability: what this layer does to a connection is kept *)
(* in the connection's log, one event per call.                            *)
(***************************************************************************)
Event(ev, ok, arg) == [ev |-> ev, ok |-> ok, arg |-> arg]

NewConn == [open |-> TRUE, log |-> <<>>]

Logged(c, evs) == [c EXCEPT !.log = c.log \o evs]

\* conn.send(cmd): writes the command and checks its acknowledgement.
ConnSend(c, cmd, ok) ==
    Logged(c, <<Event("send", TRUE, cmd), Event("check_status", ok, "")>>)

ConnCheckStatus(c, ok) == Logged(c, <<Event("check_status", ok, "")>>)

ConnReadAll(c, ok) == Logged(c, <<Event("read_all", ok, "")>>)

ConnReceive(c, ok) == Logged(c, <<Event("receive", ok, "")>>)

ConnRead(c) == Logged(c, <<Event("read", TRUE, "")>>)

ConnClose(c) == [Logged(c, <<Event("close", TRUE, "")>>) EXCEPT !.open = FALSE]

\* handler(conn): the caller's handler is given the connection.
ConnHandOver(c) == Logged(c, <<Event("handler", TRUE, "")>>)

cur == Len(conns)

OnCur(c) == [conns EXCEPT ![cur] = c]

Count(log, ev) == Cardinality({i \in 1..Len(log) : log[i].ev = ev})

(***************************************************************************)
(* Return values.                                                          *)
(***************************************************************************)
NoValue == [kind |-> "none"]

RetNone == [kind |-> "None"]

RetTrue == [kind |-> "True"]

RetConn(i) == [kind |-> "conn", conn |-> i]

RetText(t) == [kind |-> "text", text |-> t]

RetMerged(o, e) == [kind |-> "merged", output |-> o, exit_code |-> e]

RetSeparate(o, e, x) ==
    [kind |-> "separate", stdout |-> o, stderr |-> e, exit_code |-> x]

Return(v) == status' = "returned" /\ retval' = v /\ error' = "" /\ pc' = "done"

Raise(e) == status' = "raised" /\ retval' = NoValue /\ error' = e /\ pc' = "done"

\* raise e(message)
RaiseWith(e, m) ==
    status' = "raised" /\ retval' = [kind |-> "message", text |-> m]
    /\ error' = e /\ pc' = "done"

(***************************************************************************)
(* The peer of a shell,v2 connection: it sends complete frames             *)
(* {id, 4-byte little-endian length, payload} and then closes, possibly in *)
(* the middle of a frame.                                                  *)
(***************************************************************************)
\* Payloads: empty, "BA", U+00E9 in two bytes, and a lead byte alone (not UTF-8).
Payloads == {<<>>, <<66, 65>>, <<195, 169>>, <<195>>}

Frames == [id : FrameIds, payload : Payloads]

EncodeFrame(f) == <<f.id>> \o ToBytesLittle4(Len(f.payload)) \o f.payload

\* What the peer may have sent of a last frame when the stream ends: nothing,
\* the id alone, a part of the length, a part of the payload (10 bytes
\* declared and 3 sent, 2 bytes of an exit code declared and 1 sent).
Tails ==
    { <<>>,
      <<STDOUT>>,
      <<STDERR, 2, 0>>,
      <<STDOUT, 10, 0, 0, 0, 65, 65, 65>>,
      <<EXIT, 2, 0, 0, 0, 7>> }

PeerMaySend ==
    /\ op = "shell_v2" /\ pc = "read_id"
    /\ stream = <<>> /\ ~eof

shell_v2_peer_frame ==
    /\ PeerMaySend
    /\ Len(frames) < MaxFrames
    /\ \E f \in Frames :
          /\ stream' = EncodeFrame(f)
          /\ frames' = Append(frames, f)
    /\ UNCHANGED <<argvars, pc, status, retval, error, conns, eof, tail, id_,
                   length, data, output, stdout, stderr, exit_code, shortRead,
                   wbcvars>>

shell_v2_peer_close ==
    /\ PeerMaySend
    /\ \E t \in Tails :
          /\ stream' = t
          /\ tail' = t
    /\ eof' = TRUE
    /\ UNCHANGED <<argvars, pc, status, retval, error, conns, frames, id_,
                   length, data, output, stdout, stderr, exit_code, shortRead,
                   wbcvars>>

\* conn.read(n) blocks until n bytes have arrived or the peer has closed.
Readable(n) == Len(stream) >= n \/ eof

(***************************************************************************)
(* Transport.shell_v2                                                      *)
(***************************************************************************)
NoneInt == -1

IsShort(d, n) == Len(d) < n

\* read_int applied to the bytes conn.read(n) returned
read_int(d, n) == IF IsShort(d, n) THEN NoneInt ELSE FromBytesLittle(d)

MutPayloadNeverShort(d, n) == FALSE

\* line 79: len(data) < length
PayloadShort(d, n) == Len(d) < n

Acc(o, so, se, x) == [output |-> o, stdout |-> so, stderr |-> se, exit_code |-> x]

\* A slip: merged output keeps STDOUT only.
MutDispatchStdoutOnly(sep, id, d, acc) ==
    IF ~sep /\ id = STDOUT
    THEN [acc EXCEPT !.output = @ \o Utf8Decode(d)]
    ELSE IF sep /\ id = STDOUT
    THEN [acc EXCEPT !.stdout = @ \o Utf8Decode(d)]
    ELSE IF sep /\ id = STDERR
    THEN [acc EXCEPT !.stderr = @ \o Utf8Decode(d)]
    ELSE IF id = EXIT
    THEN [acc EXCEPT !.exit_code = FromBytesLittle(d)]
    ELSE acc

\* A slip: a frame of any other id is taken for output.
MutDispatchElseOutput(sep, id, d, acc) ==
    IF ~sep /\ id \in {STDOUT, STDERR}
    THEN [acc EXCEPT !.output = @ \o Utf8Decode(d)]
    ELSE IF id = STDOUT
    THEN [acc EXCEPT !.stdout = @ \o Utf8Decode(d)]
    ELSE IF id = STDERR
    THEN [acc EXCEPT !.stderr = @ \o Utf8Decode(d)]
    ELSE IF id = EXIT
    THEN [acc EXCEPT !.exit_code = FromBytesLittle(d)]
    ELSE IF sep THEN [acc EXCEPT !.stdout = @ \o d]
    ELSE [acc EXCEPT !.output = @ \o d]

\* A slip: the exit code is decoded big-endian.
MutExitCodeBig(d) == MutFromBytesBig(d)

\* line 89
ExitCodeOf(d) == FromBytesLittle(d)

\* lines 82-90: the if/elif chain on the frame id
Dispatch(sep, id, d, acc) ==
    IF ~sep /\ id \in {STDOUT, STDERR}
    THEN [acc EXCEPT !.output = @ \o Utf8Decode(d)]
    ELSE IF id = STDOUT
    THEN [acc EXCEPT !.stdout = @ \o Utf8Decode(d)]
    ELSE IF id = STDERR
    THEN [acc EXCEPT !.stderr = @ \o Utf8Decode(d)]
    ELSE IF id = EXIT
    THEN [acc EXCEPT !.exit_code = ExitCodeOf(d)]
    ELSE acc

\* data.decode("utf-8") is evaluated, and raises, in the STDOUT/STDERR branches only.
DecodeRaises(id, d) == id \in {STDOUT, STDERR} /\ Utf8Decode(d) = Utf8Error

\* A slip: the loop stops at the EXIT frame.
MutStopOnExit(id) == IF id = EXIT THEN "return" ELSE "read_id"

\* while True: after a frame is dispatched the loop reads the next frame id.
AfterDispatch(id) == "read_id"

shell_v2_create ==
    /\ op = "shell_v2" /\ pc = "create"
    /\ \/ /\ conns' = Append(conns, NewConn)
          /\ pc' = "send"
          /\ UNCHANGED <<status, retval, error>>
       \/ /\ Raise("RuntimeError")
          /\ UNCHANGED conns
    /\ UNCHANGED <<argvars, v2vars, wbcvars>>

shell_v2_send ==
    /\ op = "shell_v2" /\ pc = "send"
    /\ \/ /\ conns' = OnCur(ConnSend(conns[cur], "shell,v2:" \o args.cmd, TRUE))
          /\ pc' = IF handler THEN "handler" ELSE "init"
          /\ UNCHANGED <<status, retval, error>>
       \/ /\ conns' = OnCur(ConnSend(conns[cur], "shell,v2:" \o args.cmd, FALSE))
          /\ Raise("RuntimeError")
    /\ UNCHANGED <<argvars, v2vars, wbcvars>>

shell_v2_handler ==
    /\ op = "shell_v2" /\ pc = "handler"
    /\ conns' = OnCur(ConnHandOver(conns[cur]))
    /\ \/ Return(RetNone)
       \/ Raise("HandlerError")
    /\ UNCHANGED <<argvars, v2vars, wbcvars>>

shell_v2_init ==
    /\ op = "shell_v2" /\ pc = "init"
    /\ output' = <<>> /\ stdout' = <<>> /\ stderr' = <<>>
    /\ exit_code' = 255
    /\ pc' = "read_id"
    /\ UNCHANGED <<argvars, status, retval, error, conns, stream, eof, frames,
                   tail, id_, length, data, shortRead, wbcvars>>

shell_v2_read_id ==
    /\ op = "shell_v2" /\ pc = "read_id"
    /\ Readable(1)
    /\ conns' = OnCur(ConnRead(conns[cur]))
    /\ stream' = Drop(stream, 1)
    /\ id_' = read_int(Take(stream, 1), 1)
    /\ shortRead' = (id_' = NoneInt)
    /\ pc' = IF id_' = NoneInt THEN "return" ELSE "read_length"
    /\ UNCHANGED <<argvars, status, retval, error, eof, frames, tail, length,
                   data, output, stdout, stderr, exit_code, wbcvars>>

shell_v2_read_length ==
    /\ op = "shell_v2" /\ pc = "read_length"
    /\ Readable(4)
    /\ conns' = OnCur(ConnRead(conns[cur]))
    /\ stream' = Drop(stream, 4)
    /\ length' = read_int(Take(stream, 4), 4)
    /\ shortRead' = (length' = NoneInt)
    /\ pc' = IF length' = NoneInt THEN "return" ELSE "read_data"
    /\ UNCHANGED <<argvars, status, retval, error, eof, frames, tail, id_,
                   data, output, stdout, stderr, exit_code, wbcvars>>

shell_v2_read_data ==
    /\ op = "shell_v2" /\ pc = "read_data"
    /\ Readable(length)
    /\ conns' = OnCur(ConnRead(conns[cur]))
    /\ stream' = Drop(stream, length)
    /\ data' = Take(stream, length)
    /\ shortRead' = PayloadShort(data', length)
    /\ pc' = IF PayloadShort(data', length) THEN "return" ELSE "dispatch"
    /\ UNCHANGED <<argvars, status, retval, error, eof, frames, tail, id_,
                   length, output, stdout, stderr, exit_code, wbcvars>>

shell_v2_dispatch ==
    /\ op = "shell_v2" /\ pc = "dispatch"
    /\ IF DecodeRaises(id_, data)
       THEN /\ Raise("UnicodeDecodeError")
            /\ UNCHANGED <<output, stdout, stderr, exit_code>>
       ELSE LET acc == Dispatch(separate_stdout_stderr, id_, data,
                                Acc(output, stdout, stderr, exit_code))
            IN  /\ output' = acc.output
                /\ stdout' = acc.stdout
                /\ stderr' = acc.stderr
                /\ exit_code' = acc.exit_code
                /\ pc' = AfterDispatch(id_)
                /\ UNCHANGED <<status, retval, error>>
    /\ UNCHANGED <<argvars, conns, stream, eof, frames, tail, id_, length,
                   data, shortRead, wbcvars>>

shell_v2_return ==
    /\ op = "shell_v2" /\ pc = "return"
    /\ IF separate_stdout_stderr
       THEN Return(RetSeparate(stdout, stderr, exit_code))
       ELSE Return(RetMerged(output, exit_code))
    /\ UNCHANGED <<argvars, conns, v2vars, wbcvars>>

NextShellV2 ==
    \/ shell_v2_create
    \/ shell_v2_send
    \/ shell_v2_handler
    \/ shell_v2_init
    \/ shell_v2_peer_frame
    \/ shell_v2_peer_close
    \/ shell_v2_read_id
    \/ shell_v2_read_length
    \/ shell_v2_read_data
    \/ shell_v2_dispatch
    \/ shell_v2_return

(***************************************************************************)
(* Transport.shell, called by the caller (op = "shell") or by              *)
(* wait_boot_complete.                                                     *)
(***************************************************************************)
\* What read_all may deliver: "1\n", "0\n", nothing, "10\n", and bytes that
\* are not UTF-8.
ShellOutputs == {<<49, 10>>, <<48, 10>>, <<>>, <<49, 48, 10>>, <<195>>}

\* What `pm clear` may print: "Success\n", "Failed\n", nothing, "Error\n",
\* "Failed Success\n", " Success Failed\n", and bytes that are not UTF-8.
ClearOutputs ==
    {<<83, 117, 99, 99, 101, 115, 115, 10>>,
     <<70, 97, 105, 108, 101, 100, 10>>,
     <<>>,
     <<69, 114, 114, 111, 114, 10>>,
     <<70, 97, 105, 108, 101, 100, 32, 83, 117, 99, 99, 101, 115, 115, 10>>,
     <<32, 83, 117, 99, 99, 101, 115, 115, 32, 70, 97, 105, 108, 101, 100, 10>>,
     <<195>>}

\* What `pm list features` may print: nothing, a flag and a valued feature,
\* lines ending in "\r\n" with a foreign line, an empty line and a feature
\* named twice, a foreign line alone, and bytes that are not UTF-8.
FeatureOutputs ==
    {<<>>,
     <<102, 101, 97, 116, 117, 114, 101, 58, 97, 10, 102, 101, 97, 116, 117,
     114, 101, 58, 98, 61, 49, 10>>,
     <<102, 101, 97, 116, 117, 114, 101, 58, 97, 13, 10, 102, 111, 111, 10,
     10, 102, 101, 97, 116, 117, 114, 101, 58, 97, 61, 50, 10>>,
     <<120, 10>>,
     <<195>>}

\* What `pm list packages` may print: nothing, two packages, lines with
\* "\r\n", a warning, an empty line and a package named twice, and bytes
\* that are not UTF-8.
PackageOutputs ==
    {<<>>,
     <<112, 97, 99, 107, 97, 103, 101, 58, 97, 10, 112, 97, 99, 107, 97,
     103, 101, 58, 98, 10>>,
     <<112, 97, 99, 107, 97, 103, 101, 58, 98, 13, 10, 87, 65, 82, 78, 73,
     78, 71, 10, 10, 112, 97, 99, 107, 97, 103, 101, 58, 97, 10, 112, 97,
     99, 107, 97, 103, 101, 58, 98, 10>>,
     <<195>>}

\* What `getprop` may print: nothing, one property, lines with "\r\n", a
\* foreign line, an empty line, a key set twice and an empty value, and bytes
\* that are not UTF-8.
PropertyOutputs ==
    {<<>>,
     <<91, 107, 93, 58, 32, 91, 118, 93, 10>>,
     <<91, 107, 93, 58, 32, 91, 118, 93, 13, 10, 91, 120, 93, 10, 10, 91,
     107, 93, 58, 32, 91, 119, 93, 10, 91, 106, 93, 58, 32, 91, 93, 10>>,
     <<195>>}

\* What read_all may deliver to the call at hand.
ReadAllOutputs ==
    CASE op = "clear" -> ClearOutputs
      [] op = "list_features" -> FeatureOutputs
      [] op = "list_packages" -> PackageOutputs
      [] op = "get_properties" -> PropertyOutputs
      [] OTHER -> ShellOutputs

\* The clock is read by wait_boot_complete alone; it stops at ClockCap, which
\* lies past every deadline.
MaxTimeout == 2

MaxIo == 2

ClockCap == MaxTimeout + 1

Later(t, d) == IF t + d > ClockCap THEN ClockCap ELSE t + d

\* How long a blocking call on the connection may take.
IoTimes == IF op = "wait_boot_complete" THEN 0..MaxIo ELSE {0}

\* shell returns text to its caller
ShellReturn(text) ==
    IF op = "wait_boot_complete"
    THEN /\ result' = text
         /\ outcomes' = outcomes \cup {IF Strip(text) = <<49>> THEN "ready" ELSE "value"}
         /\ pc' = "wbc_check_ready"
         /\ UNCHANGED <<status, retval, error>>
    ELSE IF op = "shell"
    THEN /\ Return(RetText(text))
         /\ UNCHANGED <<result, outcomes>>
    ELSE /\ result' = text
         /\ pc' = "shell_returned"
         /\ UNCHANGED <<status, retval, error, outcomes>>

\* shell raises e: wait_boot_complete catches RuntimeError (line 267)
ShellRaise(e) ==
    IF op = "wait_boot_complete" /\ e = "RuntimeError"
    THEN /\ pc' = "wbc_except"
         /\ outcomes' = outcomes \cup {e}
         /\ UNCHANGED <<status, retval, error, result>>
    ELSE /\ Raise(e)
         /\ outcomes' = IF op = "wait_boot_complete" THEN outcomes \cup {e} ELSE outcomes
         /\ UNCHANGED result

ShellCallers ==
    {"shell", "wait_boot_complete", "clear", "list_features", "list_packages",
     "get_properties"}

MaxConns == 2

\* The connections of finished queries that were closed are not kept.
StillOpen(cs) == SelectSeq(cs, LAMBDA c : c.open)

shell_create ==
    /\ op \in ShellCallers /\ pc = "shell_create"
    /\ \/ /\ Len(StillOpen(conns)) < MaxConns
          /\ conns' = Append(StillOpen(conns), NewConn)
          /\ pc' = "shell_send"
          /\ UNCHANGED <<status, retval, error, result, outcomes>>
       \/ /\ ShellRaise("RuntimeError")
          /\ UNCHANGED conns
    /\ UNCHANGED <<argvars, v2vars, now, timeout, timedelta, end_time,
                   attempts, lateAttempts, sleeps>>

shell_send ==
    /\ op \in ShellCallers /\ pc = "shell_send"
    /\ \E d \in IoTimes : now' = Later(now, d)
    /\ \/ /\ conns' = OnCur(ConnSend(conns[cur], "shell:" \o args.cmd, TRUE))
          /\ pc' = IF handler THEN "shell_handler" ELSE "shell_read_all"
          /\ UNCHANGED <<status, retval, error, result, outcomes>>
       \/ /\ conns' = OnCur(ConnSend(conns[cur], "shell:" \o args.cmd, FALSE))
          /\ ShellRaise("RuntimeError")
    /\ UNCHANGED <<argvars, v2vars, timeout, timedelta, end_time,
                   attempts, lateAttempts, sleeps>>

\* A slip: the connection is closed once the handler is back.
MutShellHandlerCloses ==
    /\ op = "shell" /\ pc = "shell_handler"
    /\ conns' = OnCur(ConnClose(ConnHandOver(conns[cur])))
    /\ \/ Return(RetNone)
       \/ Raise("HandlerError")
    /\ UNCHANGED <<argvars, v2vars, wbcvars>>

shell_handler ==
    /\ op = "shell" /\ pc = "shell_handler"
    /\ conns' = OnCur(ConnHandOver(conns[cur]))
    /\ \/ Return(RetNone)
       \/ Raise("HandlerError")
    /\ UNCHANGED <<argvars, v2vars, wbcvars>>

shell_read_all ==
    /\ op \in ShellCallers /\ pc = "shell_read_all"
    /\ \E d \in IoTimes : now' = Later(now, d)
    /\ \/ /\ conns' = OnCur(ConnReadAll(conns[cur], TRUE))
          /\ \E b \in ReadAllOutputs : data' = b
          /\ pc' = "shell_close"
          /\ UNCHANGED <<status, retval, error, result, outcomes>>
       \/ /\ conns' = OnCur(ConnReadAll(conns[cur], FALSE))
          /\ \E e \in {"RuntimeError", "OSError"} : ShellRaise(e)
          /\ UNCHANGED data
    /\ UNCHANGED <<argvars, stream, eof, frames, tail, id_, length, output,
                   stdout, stderr, exit_code, shortRead, timeout, timedelta,
                   end_time, attempts, lateAttempts, sleeps>>

\* A slip: the output is decoded with the connection still open.
MutShellDecodeOpen ==
    /\ op \in ShellCallers /\ pc = "shell_close"
    /\ pc' = "shell_decode"
    /\ UNCHANGED <<argvars, status, retval, error, conns, v2vars, wbcvars>>

shell_close ==
    /\ op \in ShellCallers /\ pc = "shell_close"
    /\ conns' = OnCur(ConnClose(conns[cur]))
    /\ pc' = "shell_decode"
    /\ UNCHANGED <<argvars, status, retval, error, v2vars, wbcvars>>

shell_decode ==
    /\ op \in ShellCallers /\ pc = "shell_decode"
    /\ IF Utf8Decode(data) = Utf8Error
       THEN ShellRaise("UnicodeDecodeError")
       ELSE ShellReturn(Utf8Decode(data))
    /\ UNCHANGED <<argvars, conns, v2vars, now, timeout, timedelta, end_time,
                   attempts, lateAttempts, sleeps>>

NextShell ==
    \/ shell_create
    \/ shell_send
    \/ shell_read_all
    \/ shell_close
    \/ shell_decode

(***************************************************************************)
(* The commands that keep the connection in a `with conn:` block, and the  *)
(* commands that return the open connection.                               *)
(***************************************************************************)
\* conn = self.create_connection()
Create(o) ==
    /\ op = o /\ pc = "create"
    /\ \/ /\ conns' = Append(conns, NewConn)
          /\ pc' = "send"
          /\ UNCHANGED <<status, retval, error>>
       \/ /\ Raise("RuntimeError")
          /\ UNCHANGED conns
    /\ UNCHANGED <<argvars, v2vars, wbcvars>>

\* Leaving a `with conn:` block, normally or by an exception, closes conn.
WithExit(c) == ConnClose(c)

\* conn.send(cmd) outside a with block: a failure leaves the connection as it is.
Send(o, cmd, next) ==
    /\ op = o /\ pc = "send"
    /\ \/ /\ conns' = OnCur(ConnSend(conns[cur], cmd, TRUE))
          /\ pc' = next
          /\ UNCHANGED <<status, retval, error>>
       \/ /\ conns' = OnCur(ConnSend(conns[cur], cmd, FALSE))
          /\ Raise("RuntimeError")
    /\ UNCHANGED <<argvars, v2vars, wbcvars>>

\* A slip: the command is written twice.
MutSendTwice(o, cmd, next) ==
    /\ op = o /\ pc = "send"
    /\ \/ /\ conns' = OnCur(ConnSend(ConnSend(conns[cur], cmd, TRUE), cmd, TRUE))
          /\ pc' = next
          /\ UNCHANGED <<status, retval, error>>
       \/ /\ conns' = OnCur(WithExit(ConnSend(conns[cur], cmd, FALSE)))
          /\ Raise("RuntimeError")
    /\ UNCHANGED <<argvars, v2vars, wbcvars>>

\* conn.send(cmd) inside a with block: a failure leaves the block.
SendInWith(o, cmd, next) ==
    /\ op = o /\ pc = "send"
    /\ \/ /\ conns' = OnCur(ConnSend(conns[cur], cmd, TRUE))
          /\ pc' = next
          /\ UNCHANGED <<status, retval, error>>
       \/ /\ conns' = OnCur(WithExit(ConnSend(conns[cur], cmd, FALSE)))
          /\ Raise("RuntimeError")
    /\ UNCHANGED <<argvars, v2vars, wbcvars>>

\* return conn
ReturnConn(o) ==
    /\ op = o /\ pc = "return"
    /\ Return(RetConn(cur))
    /\ UNCHANGED <<argvars, conns, v2vars, wbcvars>>

\* the end of the with block, then return True
ExitReturnTrue(o) ==
    /\ op = o /\ pc = "exit"
    /\ conns' = OnCur(WithExit(conns[cur]))
    /\ Return(RetTrue)
    /\ UNCHANGED <<argvars, v2vars, wbcvars>>

sync_create == Create("sync")

sync_send == Send("sync", "sync:", "return")

sync_return == ReturnConn("sync")

\* lines 192-193
LocalPath(p) ==
    IF p.scheme = "" THEN "localfilesystem:" \o p.name
    ELSE p.scheme \o ":" \o p.name

local_create == Create("local")

local_send == Send("local", LocalPath(args.path), "return")

local_return == ReturnConn("local")

log_create == Create("log")

log_send == Send("log", "log:" \o args.name, "return")

log_return == ReturnConn("log")

reboot_create == Create("reboot")

reboot_send == SendInWith("reboot", "reboot:", "read_all")

reboot_read_all ==
    /\ op = "reboot" /\ pc = "read_all"
    /\ \/ /\ conns' = OnCur(ConnReadAll(conns[cur], TRUE))
          /\ pc' = "exit"
          /\ UNCHANGED <<status, retval, error>>
       \/ /\ conns' = OnCur(WithExit(ConnReadAll(conns[cur], FALSE)))
          /\ \E e \in {"RuntimeError", "OSError"} : Raise(e)
    /\ UNCHANGED <<argvars, v2vars, wbcvars>>

reboot_exit == ExitReturnTrue("reboot")

remount_create == Create("remount")

remount_send == SendInWith("remount", "remount:", "exit")

remount_exit == ExitReturnTrue("remount")

ReverseCmd(remote, local) == "reverse:forward:" \o remote \o ":" \o local

reverse_create == Create("reverse")

reverse_send ==
    SendInWith("reverse", ReverseCmd(args.remote, args.local), "check_status")

\* A slip: the second status check is left out.
MutReverseNoCheck ==
    /\ op = "reverse" /\ pc = "check_status"
    /\ pc' = "exit"
    /\ UNCHANGED <<argvars, status, retval, error, conns, v2vars, wbcvars>>

reverse_check_status ==
    /\ op = "reverse" /\ pc = "check_status"
    /\ \/ /\ conns' = OnCur(ConnCheckStatus(conns[cur], TRUE))
          /\ pc' = "exit"
          /\ UNCHANGED <<status, retval, error>>
       \/ /\ conns' = OnCur(WithExit(ConnCheckStatus(conns[cur], FALSE)))
          /\ Raise("RuntimeError")
    /\ UNCHANGED <<argvars, v2vars, wbcvars>>

reverse_exit == ExitReturnTrue("reverse")

\* "restarting adbd as root"
RootPhrase ==
    <<114, 101, 115, 116, 97, 114, 116, 105, 110, 103, 32, 97, 100, 98, 100,
      32, 97, 115, 32, 114, 111, 111, 116>>

\* What adbd may answer: the confirmation, "adbd is already running as
\* root\n", nothing, bytes that are not UTF-8.
RootOutputs ==
    { RootPhrase \o <<10>>,
      <<97, 100, 98, 100, 32, 105, 115, 32, 97, 108, 114, 101, 97, 100, 121,
        32, 114, 117, 110, 110, 105, 110, 103, 32, 97, 115, 32, 114, 111, 111,
        116, 10>>,
      <<>>,
      <<195>> }

root_create == Create("root")

root_send == SendInWith("root", "root:", "read_all")

root_read_all ==
    /\ op = "root" /\ pc = "read_all"
    /\ \/ /\ \E b \in RootOutputs : data' = b
          /\ IF Utf8Decode(data') = Utf8Error
             THEN /\ conns' = OnCur(WithExit(ConnReadAll(conns[cur], TRUE)))
                  /\ Raise("UnicodeDecodeError")
                  /\ UNCHANGED result
             ELSE /\ conns' = OnCur(ConnReadAll(conns[cur], TRUE))
                  /\ result' = Utf8Decode(data')
                  /\ pc' = "check"
                  /\ UNCHANGED <<status, retval, error>>
       \/ /\ conns' = OnCur(WithExit(ConnReadAll(conns[cur], FALSE)))
          /\ \E e \in {"RuntimeError", "OSError"} : Raise(e)
          /\ UNCHANGED <<data, result>>
    /\ UNCHANGED <<argvars, stream, eof, frames, tail, id_, length, output,
                   stdout, stderr, exit_code, shortRead, now, timeout,
                   timedelta, end_time, attempts, lateAttempts, sleeps,
                   outcomes>>

\* A slip: the response must be the confirmation and nothing else.
MutRootCheckExact ==
    /\ op = "root" /\ pc = "check"
    /\ conns' = OnCur(WithExit(conns[cur]))
    /\ IF result = RootPhrase
       THEN Return(RetTrue)
       ELSE RaiseWith("RuntimeError", Strip(result))
    /\ UNCHANGED <<argvars, v2vars, wbcvars>>

root_check ==
    /\ op = "root" /\ pc = "check"
    /\ conns' = OnCur(WithExit(conns[cur]))
    /\ IF Contains(result, RootPhrase)
       THEN Return(RetTrue)
       ELSE RaiseWith("RuntimeError", Strip(result))
    /\ UNCHANGED <<argvars, v2vars, wbcvars>>

(***************************************************************************)
(* Transport.framebuffer and Transport.logcat                              *)
(***************************************************************************)
\* raise NotImplemented(): NotImplemented is the constant, not an exception
\* class, and calling it raises TypeError ('NotImplementedType' object is not
\* callable) before the raise statement has anything to raise
RaiseNotImplemented(o) ==
    /\ op = o /\ pc = "raise"
    /\ Raise("TypeError")
    /\ UNCHANGED <<argvars, conns, v2vars, wbcvars>>

framebuffer_raise == RaiseNotImplemented("framebuffer")

logcat_raise == RaiseNotImplemented("logcat")

(***************************************************************************)
(* Transport.transport: the connection is the caller's.                    *)
(***************************************************************************)
transport_send == Send("transport", "host:transport:" \o args.serial, "return")

transport_return == ReturnConn("transport")

(***************************************************************************)
(* Transport.screencap                                                     *)
(***************************************************************************)
RetBytes(b) == [kind |-> "bytes", bytes |-> b]

\* What the device may deliver: nothing, two bytes, the first eight bytes of
\* a PNG file, and the same with every "\n" turned into "\r\n".
ScreenOutputs ==
    {<<>>,
     <<1, 2>>,
     <<137, 80, 78, 71, 13, 10, 26, 10>>,
     <<137, 80, 78, 71, 13, 13, 10, 26, 13, 10>>}

\* result.replace(b'\r\n', b'\n')
RECURSIVE ReplaceCRLF(_)
ReplaceCRLF(b) ==
    IF b = <<>> THEN <<>>
    ELSE IF Len(b) >= 2 /\ b[1] = 13 /\ b[2] = 10
    THEN <<10>> \o ReplaceCRLF(Drop(b, 2))
    ELSE <<b[1]>> \o ReplaceCRLF(Tail(b))

screencap_create == Create("screencap")

screencap_send ==
    SendInWith("screencap", "shell:/system/bin/screencap -p", "read_all")

\* line 110 and the end of the with block
screencap_read_all ==
    /\ op = "screencap" /\ pc = "read_all"
    /\ \/ /\ conns' = OnCur(WithExit(ConnReadAll(conns[cur], TRUE)))
          /\ \E b \in ScreenOutputs : data' = b
          /\ pc' = "return"
          /\ UNCHANGED <<status, retval, error>>
       \/ /\ conns' = OnCur(WithExit(ConnReadAll(conns[cur], FALSE)))
          /\ \E e \in {"RuntimeError", "OSError"} : Raise(e)
          /\ UNCHANGED data
    /\ UNCHANGED <<argvars, stream, eof, frames, tail, id_, length, output,
                   stdout, stderr, exit_code, shortRead, wbcvars>>

\* lines 112-115
screencap_return ==
    /\ op = "screencap" /\ pc = "return"
    /\ IF data # <<>> /\ Len(data) > 5 /\ data[6] = 13
       THEN Return(RetBytes(ReplaceCRLF(data)))
       ELSE Return(RetBytes(data))
    /\ UNCHANGED <<argvars, conns, v2vars, wbcvars>>

(***************************************************************************)
(* Transport.list_reverses                                                 *)
(***************************************************************************)
RetList(l) == [kind |-> "list", list |-> l]

\* str.split(sep)
RECURSIVE SplitOn(_, _)
SplitOn(text, sep) ==
    IF \A i \in 1..Len(text) : text[i] # sep THEN <<text>>
    ELSE LET i == CHOOSE k \in 1..Len(text) :
                      text[k] = sep /\ \A j \in 1..(k - 1) : text[j] # sep
         IN  <<SubSeq(text, 1, i - 1)>> \o SplitOn(SubSeq(text, i + 1, Len(text)), sep)

\* The length of the longest prefix without whitespace.
RECURSIVE WordLen(_)
WordLen(text) ==
    IF text = <<>> \/ text[1] \in Whitespace THEN 0 ELSE 1 + WordLen(Tail(text))

\* str.split(): the words between runs of whitespace
RECURSIVE SplitWhitespace(_)
SplitWhitespace(text) ==
    LET u == LStrip(text)
    IN  IF u = <<>> THEN <<>>
        ELSE <<Take(u, WordLen(u))>> \o SplitWhitespace(Drop(u, WordLen(u)))

\* What the framed receive may deliver: nothing, "s r l\n", two entries, a
\* line of two words, a line of four words, a line of blanks, an empty first
\* line with runs of blanks, and a line ending with "\r\n".
ReverseLists ==
    {<<>>,
     <<115, 32, 114, 32, 108, 10>>,
     <<115, 32, 114, 32, 108, 10, 116, 32, 113, 32, 109, 10>>,
     <<115, 32, 114, 10>>,
     <<115, 32, 114, 32, 108, 32, 120, 10>>,
     <<115, 32, 114, 32, 108, 10, 32, 10>>,
     <<10, 115, 32, 32, 114, 9, 108>>,
     <<115, 32, 114, 32, 108, 13, 10>>}

\* A slip: a line that is not three words is skipped.
RECURSIVE MutParseSkipMalformed(_)
MutParseSkipMalformed(lines) ==
    IF lines = <<>> THEN [ok |-> TRUE, list |-> <<>>]
    ELSE LET words == SplitWhitespace(Head(lines))
             rest == MutParseSkipMalformed(Tail(lines))
         IN  IF Len(words) # 3 THEN rest
             ELSE [ok |-> TRUE,
                   list |-> <<[remote |-> words[2], local |-> words[3]]>> \o rest.list]

\* lines 176-189: ok is FALSE when the unpacking of line.split() raises
RECURSIVE ParseReverses(_)
ParseReverses(lines) ==
    IF lines = <<>> THEN [ok |-> TRUE, list |-> <<>>]
    ELSE LET line == Head(lines)
             words == SplitWhitespace(line)
             rest == ParseReverses(Tail(lines))
         IN  IF line = <<>> THEN rest
             ELSE IF Len(words) # 3 \/ ~rest.ok THEN [ok |-> FALSE, list |-> <<>>]
             ELSE [ok |-> TRUE,
                   list |-> <<[remote |-> words[2], local |-> words[3]]>> \o rest.list]

list_reverses_create == Create("list_reverses")

list_reverses_send == SendInWith("list_reverses", "reverse:list-forward", "receive")

\* line 174 and the end of the with block
list_reverses_receive ==
    /\ op = "list_reverses" /\ pc = "receive"
    /\ \/ /\ conns' = OnCur(WithExit(ConnReceive(conns[cur], TRUE)))
          /\ \E r \in ReverseLists : result' = r
          /\ pc' = "parse"
          /\ UNCHANGED <<status, retval, error>>
       \/ /\ conns' = OnCur(WithExit(ConnReceive(conns[cur], FALSE)))
          /\ \E e \in {"RuntimeError", "OSError"} : Raise(e)
          /\ UNCHANGED result
    /\ UNCHANGED <<argvars, v2vars, now, timeout, timedelta, end_time,
                   attempts, lateAttempts, sleeps, outcomes>>

list_reverses_parse ==
    /\ op = "list_reverses" /\ pc = "parse"
    /\ LET parsed == ParseReverses(SplitOn(result, 10))
       IN  IF parsed.ok THEN Return(RetList(parsed.list)) ELSE Raise("ValueError")
    /\ UNCHANGED <<argvars, conns, v2vars, wbcvars>>

(***************************************************************************)
(* The commands that run one shell command and read its output.            *)
(***************************************************************************)
\* result = self.shell(cmd)
CallShell(o, a) ==
    /\ op = o /\ pc = "call_shell"
    /\ args' = a
    /\ pc' = "shell_create"
    /\ UNCHANGED <<op, handler, separate_stdout_stderr, status, retval, error,
                   conns, v2vars, wbcvars>>

\* line 120
clear_shell ==
    CallShell("clear", [package |-> args.package,
                        cmd |-> "pm clear " \o args.package])

\* "Success", "Failed"
Success == <<83, 117, 99, 99, 101, 115, 115>>

Failed == <<70, 97, 105, 108, 101, 100>>

StartsAt(text, i, word) == Take(Drop(text, i - 1), Len(word)) = word

\* A slip: "Success" anywhere in the output counts.
MutClearAnySuccess(text) == IF Contains(text, Success) THEN Success ELSE <<>>

\* lines 118, 121: m = re.search("(Success|Failed)", result), as m.group(1);
\* <<>> stands for m is None
RECURSIVE ReSearchFrom(_, _)
ReSearchFrom(text, i) ==
    IF i > Len(text) THEN <<>>
    ELSE IF StartsAt(text, i, Success) THEN Success
    ELSE IF StartsAt(text, i, Failed) THEN Failed
    ELSE ReSearchFrom(text, i + 1)

ClearResult(text) == ReSearchFrom(text, 1)

\* raise ClearError(package, result.strip())
RaiseClearError(package, m) ==
    /\ status' = "raised" /\ error' = "ClearError" /\ pc' = "done"
    /\ retval' = [kind |-> "ClearError", package |-> package, text |-> m]

\* lines 123-127
clear_check ==
    /\ op = "clear" /\ pc = "shell_returned"
    /\ IF ClearResult(result) = Success
       THEN Return(RetTrue)
       ELSE RaiseClearError(args.package, Strip(result))
    /\ UNCHANGED <<argvars, conns, v2vars, wbcvars>>

(***************************************************************************)
(* The line parsers over shell: re.match of a pattern on each line.        *)
(***************************************************************************)
RetDict(d) == [kind |-> "dict", dict |-> d]

\* dict[k] = v
DictSet(d, k, v) == [x \in DOMAIN d \cup {k} |-> IF x = k THEN v ELSE d[x]]

\* The values of a feature: True, or the text after "=".
PyTrue == [flag |-> TRUE, text |-> <<>>]

PyStr(t) == [flag |-> FALSE, text |-> t]

\* `\r?$` after a lazy group: one "\r" at the end of the line is left out
DropCR(t) ==
    IF t # <<>> /\ t[Len(t)] = 13 THEN SubSeq(t, 1, Len(t) - 1) ELSE t

\* Where phrase first occurs in t, 0 when it does not.
IndexOf(t, phrase) ==
    IF Contains(t, phrase)
    THEN CHOOSE i \in 1..Len(t) :
            /\ StartsAt(t, i, phrase)
            /\ \A j \in 1..(i - 1) : ~StartsAt(t, j, phrase)
    ELSE 0

NoMatch == [ok |-> FALSE, key |-> <<>>, value |-> PyTrue]

\* "feature:", "package:", "]: ["
FeaturePrefix == <<102, 101, 97, 116, 117, 114, 101, 58>>

PackagePrefix == <<112, 97, 99, 107, 97, 103, 101, 58>>

PropertyMiddle == <<93, 58, 32, 91>>

\* line 135: re.match("^feature:(.*?)(?:=(.*?))?\r?$", line); the lazy first
\* group ends at the first "="
MatchFeature(line) ==
    IF Take(line, Len(FeaturePrefix)) # FeaturePrefix THEN NoMatch
    ELSE LET rest == DropCR(Drop(line, Len(FeaturePrefix)))
             i == IndexOf(rest, <<61>>)
         IN  IF i = 0 THEN [ok |-> TRUE, key |-> rest, value |-> PyTrue]
             ELSE [ok |-> TRUE, key |-> SubSeq(rest, 1, i - 1),
                   value |-> PyStr(SubSeq(rest, i + 1, Len(rest)))]

\* line 147: re.match("^package:(.*?)\r?$", line)
MatchPackage(line) ==
    IF Take(line, Len(PackagePrefix)) # PackagePrefix THEN NoMatch
    ELSE [ok |-> TRUE, key |-> DropCR(Drop(line, Len(PackagePrefix))),
          value |-> PyTrue]

\* line 159: re.match("^\[([\s\S]*?)\]: \[([\s\S]*?)\]\r?$", line); the lazy
\* first group ends at the first "]: ["
MatchProperty(line) ==
    LET i == IndexOf(line, PropertyMiddle)
        rest == DropCR(Drop(line, i + 3))
    IN  IF line = <<>> \/ line[1] # 91 \/ i = 0 THEN NoMatch
        ELSE IF rest = <<>> \/ rest[Len(rest)] # 93 THEN NoMatch
        ELSE [ok |-> TRUE, key |-> SubSeq(line, 2, i - 1),
              value |-> PyStr(SubSeq(rest, 1, Len(rest) - 1))]

\* lines 136-141
RECURSIVE ParseFeatures(_, _)
ParseFeatures(lines, features) ==
    IF lines = <<>> THEN features
    ELSE LET m == MatchFeature(Head(lines))
         IN  ParseFeatures(Tail(lines),
                           IF m.ok THEN DictSet(features, m.key, m.value)
                           ELSE features)

\* A slip: a package is listed once.
RECURSIVE MutParsePackagesOnce(_, _)
MutParsePackagesOnce(lines, packages) ==
    IF lines = <<>> THEN packages
    ELSE LET m == MatchPackage(Head(lines))
         IN  MutParsePackagesOnce(Tail(lines),
                 IF m.ok /\ \A i \in 1..Len(packages) : packages[i] # m.key
                 THEN Append(packages, m.key)
                 ELSE packages)

\* lines 149-153
RECURSIVE ParsePackages(_, _)
ParsePackages(lines, packages) ==
    IF lines = <<>> THEN packages
    ELSE LET m == MatchPackage(Head(lines))
         IN  ParsePackages(Tail(lines),
                           IF m.ok THEN Append(packages, m.key) ELSE packages)

\* lines 161-165
RECURSIVE ParseProperties(_, _)
ParseProperties(lines, properties) ==
    IF lines = <<>> THEN properties
    ELSE LET m == MatchProperty(Head(lines))
         IN  ParseProperties(Tail(lines),
                             IF m.ok THEN DictSet(properties, m.key, m.value.text)
                             ELSE properties)

\* The parsing after the shell call, and the return.
ParseReturn(o, v) ==
    /\ op = o /\ pc = "shell_returned"
    /\ Return(v)
    /\ UNCHANGED <<argvars, conns, v2vars, wbcvars>>

list_features_shell ==
    CallShell("list_features", [cmd |-> "pm list features 2>/dev/null"])

list_features_parse ==
    ParseReturn("list_features", RetDict(ParseFeatures(SplitOn(result, 10), <<>>)))

list_packages_shell ==
    CallShell("list_packages", [cmd |-> "pm list packages 2>/dev/null"])

list_packages_parse ==
    ParseReturn("list_packages", RetList(ParsePackages(SplitOn(result, 10), <<>>)))

get_properties_shell == CallShell("get_properties", [cmd |-> "getprop"])

get_properties_parse ==
    ParseReturn("get_properties",
                RetDict(ParseProperties(SplitOn(result, 10), <<>>)))

NextCommands ==
    \/ clear_shell \/ clear_check
    \/ list_features_shell \/ list_features_parse
    \/ list_packages_shell \/ list_packages_parse
    \/ get_properties_shell \/ get_properties_parse
    \/ framebuffer_raise \/ logcat_raise
    \/ transport_send \/ transport_return
    \/ screencap_create \/ screencap_send
    \/ screencap_read_all \/ screencap_return
    \/ list_reverses_create \/ list_reverses_send
    \/ list_reverses_receive \/ list_reverses_parse
    \/ sync_create \/ sync_send \/ sync_return
    \/ local_create \/ local_send \/ local_return
    \/ log_create \/ log_send \/ log_return
    \/ reboot_create \/ reboot_send \/ reboot_read_all \/ reboot_exit
    \/ remount_create \/ remount_send \/ remount_exit
    \/ reverse_create \/ reverse_send \/ reverse_check_status \/ reverse_exit
    \/ root_create \/ root_send \/ root_read_all \/ root_check

(***************************************************************************)
(* Transport.wait_boot_complete                                            *)
(***************************************************************************)
MaxDelta == 1

\* The history counters stop at CountCap.
CountCap == 2

Counted(n) == IF n < CountCap THEN n + 1 ELSE n

\* "1"
Ready == <<49>>

\* A slip: any text holding a "1" counts as ready.
MutIsReadyContains(text) == Contains(text, Ready)

\* line 271
IsReady(text) == Strip(text) = Ready

\* A slip: the deadline is compared with >=.
MutDeadlineReached(t, e) == t >= e

\* line 274: time.time() > end_time
DeadlinePassed(t, e) == t > e

\* line 262
wbc_enter ==
    /\ op = "wait_boot_complete" /\ pc = "wbc_enter"
    /\ end_time' = now + timeout
    /\ pc' = "wbc_query"
    /\ UNCHANGED <<argvars, status, retval, error, conns, v2vars, now, timeout,
                   timedelta, result, attempts, lateAttempts, sleeps, outcomes>>

\* line 266: the call of self.shell(cmd)
wbc_query ==
    /\ op = "wait_boot_complete" /\ pc = "wbc_query"
    /\ pc' = "shell_create"
    /\ attempts' = Counted(attempts)
    /\ lateAttempts' = IF now > end_time THEN Counted(lateAttempts) ELSE lateAttempts
    /\ UNCHANGED <<argvars, status, retval, error, conns, v2vars, now, timeout,
                   timedelta, end_time, result, sleeps, outcomes>>

\* A slip: after a failed query the deadline is examined.
MutExceptChecksDeadline ==
    /\ op = "wait_boot_complete" /\ pc = "wbc_except"
    /\ pc' = "wbc_check_deadline"
    /\ UNCHANGED <<argvars, status, retval, error, conns, v2vars, wbcvars>>

\* lines 267-269: except RuntimeError: logger.warning(e); continue
wbc_except ==
    /\ op = "wait_boot_complete" /\ pc = "wbc_except"
    /\ pc' = "wbc_query"
    /\ UNCHANGED <<argvars, status, retval, error, conns, v2vars, wbcvars>>

\* lines 271-272
wbc_check_ready ==
    /\ op = "wait_boot_complete" /\ pc = "wbc_check_ready"
    /\ IF IsReady(result)
       THEN Return(RetTrue)
       ELSE /\ pc' = "wbc_check_deadline"
            /\ UNCHANGED <<status, retval, error>>
    /\ UNCHANGED <<argvars, conns, v2vars, wbcvars>>

\* lines 274-277
wbc_check_deadline ==
    /\ op = "wait_boot_complete" /\ pc = "wbc_check_deadline"
    /\ IF DeadlinePassed(now, end_time)
       THEN Raise("TimeoutError")
       ELSE /\ pc' = IF timedelta > 0 THEN "wbc_sleep" ELSE "wbc_query"
            /\ UNCHANGED <<status, retval, error>>
    /\ UNCHANGED <<argvars, conns, v2vars, wbcvars>>

\* line 277: time.sleep(timedelta)
wbc_sleep ==
    /\ op = "wait_boot_complete" /\ pc = "wbc_sleep"
    /\ now' = Later(now, timedelta)
    /\ sleeps' = Counted(sleeps)
    /\ pc' = "wbc_query"
    /\ UNCHANGED <<argvars, status, retval, error, conns, v2vars, timeout,
                   timedelta, end_time, result, attempts, lateAttempts, outcomes>>

NextPoller ==
    \/ wbc_enter
    \/ wbc_query
    \/ wbc_except
    \/ wbc_check_ready
    \/ wbc_check_deadline
    \/ wbc_sleep
    \/ NextShell

(***************************************************************************)
(* The state a call starts in.                                             *)
(***************************************************************************)
NoArgs == [none |-> ""]

StartWith(o, at, cs) ==
    /\ op = o
    /\ pc = at
    /\ status = "running" /\ retval = NoValue /\ error = ""
    /\ conns = cs
    /\ stream = <<>> /\ eof = FALSE /\ frames = <<>> /\ tail = <<>>
    /\ id_ = 0 /\ length = 0 /\ data = <<>>
    /\ output = <<>> /\ stdout = <<>> /\ stderr = <<>> /\ exit_code = 0
    /\ shortRead = FALSE
    /\ now = 0 /\ end_time = 0 /\ result = <<>>
    /\ attempts = 0 /\ lateAttempts = 0 /\ sleeps = 0 /\ outcomes = {}

Start(o, at) == StartWith(o, at, <<>>)

Serials == {"emulator-5554", "0123456789ABCDEF"}

NoPoll == timeout = 0 /\ timedelta = 0

Plain == handler = FALSE /\ separate_stdout_stderr = FALSE /\ NoPoll

Packages == {"com.app", "org.demo"}

Paths == {[scheme |-> "", name |-> "/data/x"],
          [scheme |-> "localabstract", name |-> "sock"]}

Init ==
    \/ /\ Start("shell_v2", "create")
       /\ handler \in BOOLEAN /\ separate_stdout_stderr \in BOOLEAN
       /\ args = [cmd |-> "ls"] /\ NoPoll
    \/ /\ Start("shell", "shell_create")
       /\ handler \in BOOLEAN /\ separate_stdout_stderr = FALSE
       /\ args = [cmd |-> "ls"] /\ NoPoll
    \/ /\ Start("sync", "create") /\ args = NoArgs /\ Plain
    \/ /\ Start("local", "create") /\ Plain
       /\ \E p \in Paths : args = [path |-> p]
    \/ /\ Start("log", "create") /\ args = [name |-> "main"] /\ Plain
    \/ /\ Start("reboot", "create") /\ args = NoArgs /\ Plain
    \/ /\ Start("remount", "create") /\ args = NoArgs /\ Plain
    \/ /\ Start("reverse", "create") /\ Plain
       /\ args = [remote |-> "tcp:8000", local |-> "tcp:9000"]
    \/ /\ Start("root", "create") /\ args = NoArgs /\ Plain
    \/ /\ Start("framebuffer", "raise") /\ args = NoArgs /\ Plain
    \/ /\ Start("logcat", "raise") /\ Plain
       /\ \E clear \in BOOLEAN : args = [clear |-> clear]
    \/ /\ StartWith("transport", "send", <<NewConn>>) /\ Plain
       /\ \E serial \in Serials : args = [serial |-> serial]
    \/ /\ Start("screencap", "create") /\ args = NoArgs /\ Plain
    \/ /\ Start("list_reverses", "create") /\ args = NoArgs /\ Plain
    \/ /\ \E o \in {"list_features", "list_packages", "get_properties"} :
             Start(o, "call_shell")
       /\ args = NoArgs /\ Plain
    \/ /\ Start("clear", "call_shell") /\ Plain
       /\ \E p \in Packages : args = [package |-> p]

Next ==
    \/ NextShellV2
    \/ NextShell
    \/ shell_handler
    \/ NextCommands

Spec == Init /\ [][Next]_vars

InitPoller ==
    /\ Start("wait_boot_complete", "wbc_enter")
    /\ handler = FALSE /\ separate_stdout_stderr = FALSE
    /\ args = [cmd |-> "getprop sys.boot_completed"]
    /\ timeout \in -1..MaxTimeout
    /\ timedelta \in 0..MaxDelta

SpecPoller == InitPoller /\ [][NextPoller]_vars

\* The thread runs on, and the wall clock moves while it does.
ClockMoves == NextPoller /\ now' > now

FairSpecPoller ==
    SpecPoller /\ WF_vars(NextPoller) /\ SF_vars(ClockMoves)

(***************************************************************************)
(* What the claims speak of: the result shell_v2 owes to the complete      *)
(* frames the peer sent.                                                   *)
(***************************************************************************)
RECURSIVE TextOf(_, _)
TextOf(fs, ids) ==
    IF fs = <<>> THEN <<>>
    ELSE (IF Head(fs).id \in ids THEN Utf8Decode(Head(fs).payload) ELSE <<>>)
         \o TextOf(Tail(fs), ids)

RECURSIVE Pow256(_)
Pow256(n) == IF n = 0 THEN 1 ELSE 256 * Pow256(n - 1)

RECURSIVE LittleEndianValue(_)
LittleEndianValue(p) ==
    IF p = <<>> THEN 0
    ELSE LittleEndianValue(SubSeq(p, 1, Len(p) - 1)) + p[Len(p)] * Pow256(Len(p) - 1)

ExitFrames(fs) == SelectSeq(fs, LAMBDA f : f.id = EXIT)

ExpectedExit(fs) ==
    IF ExitFrames(fs) = <<>> THEN 255
    ELSE LittleEndianValue(ExitFrames(fs)[Len(ExitFrames(fs))].payload)

Demux == op = "shell_v2" /\ ~handler

Frame(i, p) == [id |-> i, payload |-> p]

\* C1: shell_v2 without a handler returns, merged, the payloads of the STDOUT
\* and STDERR frames concatenated in arrival order whichever of the two each
\* is, and, separate, the STDOUT payloads as stdout and the STDERR payloads as
\* stderr, each in arrival order; it fails to return only on a payload that is
\* not text.
C1_Output ==
    Demux =>
      /\ status = "returned" =>
           IF separate_stdout_stderr
           THEN /\ retval.kind = "separate"
                /\ retval.stdout = TextOf(frames, {STDOUT})
                /\ retval.stderr = TextOf(frames, {STDERR})
           ELSE /\ retval.kind = "merged"
                /\ retval.output = TextOf(frames, {STDOUT, STDERR})
      /\ (status = "raised" /\ error = "UnicodeDecodeError") =>
           \E i \in 1..Len(frames) :
              /\ frames[i].id \in {STDOUT, STDERR}
              /\ Utf8Decode(frames[i].payload) = Utf8Error

C1_Witness ==
    /\ Demux /\ status = "returned" /\ ~separate_stdout_stderr
    /\ frames = <<Frame(STDERR, <<195, 169>>), Frame(STDOUT, <<66, 65>>)>>
    /\ retval.output = <<233, 66, 65>>

\* C2: the exit code shell_v2 returns is 255 when no complete EXIT frame was
\* read, and else the little-endian value of the payload of the last complete
\* EXIT frame, in both modes.
C2_ExitCode ==
    (Demux /\ status = "returned") => retval.exit_code = ExpectedExit(frames)

C2_Witness ==
    /\ Demux /\ status = "returned" /\ separate_stdout_stderr
    /\ frames = <<Frame(EXIT, <<195>>), Frame(EXIT, <<66, 65>>)>>
    /\ retval.exit_code = 16706

\* C3: a stream that ends inside a frame is not an error: after a short read
\* of the id, the length or the payload shell_v2 returns normally, only
\* complete frames are ever dispatched, and what it returns is what the
\* complete frames before the truncated one give (exit code 255 without a
\* complete EXIT frame).
C3_Truncated ==
    Demux =>
      /\ shortRead => (status # "raised" /\ pc \in {"return", "done"})
      /\ pc = "dispatch" =>
           (frames # <<>> /\ Frame(id_, data) = frames[Len(frames)])
      /\ (status = "returned" /\ tail # <<>>) =>
           /\ retval.exit_code = ExpectedExit(frames)
           /\ IF separate_stdout_stderr
              THEN /\ retval.stdout = TextOf(frames, {STDOUT})
                   /\ retval.stderr = TextOf(frames, {STDERR})
              ELSE retval.output = TextOf(frames, {STDOUT, STDERR})

C3_Witness ==
    /\ Demux /\ status = "returned" /\ ~separate_stdout_stderr
    /\ tail = <<STDOUT, 10, 0, 0, 0, 65, 65, 65>>
    /\ frames = <<Frame(STDOUT, <<66, 65>>)>>
    /\ retval = RetMerged(<<66, 65>>, 255)

OtherId(i) == i \notin {STDOUT, STDERR, EXIT}

\* C4: a complete frame of any id other than STDOUT, STDERR and EXIT has its
\* whole payload read, changes neither the accumulators nor the exit code,
\* raises nothing, and is followed by the read of the next frame header right
\* after its payload.
C4_OtherIds ==
    /\ [](Demux /\ pc = "dispatch" /\ OtherId(id_) =>
            /\ Len(data) = length
            /\ frames # <<>> /\ Frame(id_, data) = frames[Len(frames)]
            /\ stream = <<>>)
    /\ [][(Demux /\ pc = "dispatch" /\ OtherId(id_)) =>
            /\ output' = output /\ stdout' = stdout /\ stderr' = stderr
            /\ exit_code' = exit_code
            /\ status' = "running" /\ pc' = "read_id"
            /\ stream' = stream]_vars

C4_Witness ==
    /\ Demux /\ status = "returned" /\ separate_stdout_stderr
    /\ frames = <<Frame(WINDOW_SIZE_CHANGE, <<195>>), Frame(STDOUT, <<66, 65>>)>>
    /\ retval = RetSeparate(<<66, 65>>, <<>>, 255)

\* C5: the loop of shell_v2 ends only on a short read: an EXIT frame does not
\* end it, every frame dispatched (EXIT included) is followed by the read of
\* the next frame id, and shell_v2 returns only right after a short read.
C5_OnlyShortReadEnds ==
    /\ []((Demux /\ (pc = "return" \/ status = "returned")) => shortRead)
    /\ [][(Demux /\ pc = "dispatch" /\ ~DecodeRaises(id_, data)) =>
            (pc' = "read_id" /\ status' = "running")]_vars
    /\ [][(Demux /\ pc \in {"read_id", "read_length", "read_data"} /\ pc' = "return")
            => shortRead']_vars

C5_Witness ==
    /\ Demux /\ status = "returned" /\ ~separate_stdout_stderr
    /\ frames = <<Frame(EXIT, <<>>), Frame(STDOUT, <<66, 65>>)>>
    /\ retval = RetMerged(<<66, 65>>, 0)
    /\ shortRead

(***************************************************************************)
(* Connections and ownership.                                              *)
(***************************************************************************)
Bounded ==
    \/ op \in {"shell", "shell_v2"} /\ ~handler
    \/ op \in {"reboot", "remount", "reverse", "root"}

Handoff ==
    \/ op \in {"shell", "shell_v2"} /\ handler
    \/ op \in {"sync", "local", "log"}

AllClosed == \A i \in 1..Len(conns) : ~conns[i].open

\* C6: in every terminal state of a command that neither hands its connection
\* to a handler nor returns it, the connection the command created is closed.
C6_ClosedOnEveryExit == (Bounded /\ pc = "done") => AllClosed

SentCommand ==
    CASE op = "shell" -> "shell:ls"
      [] op = "shell_v2" -> "shell,v2:ls"
      [] op = "sync" -> "sync:"
      [] op = "log" -> "log:main"
      [] op = "local" -> IF args.path.scheme = "" THEN "localfilesystem:/data/x"
                         ELSE "localabstract:sock"
      [] OTHER -> ""

\* C7: where the connection is handed over (shell and shell_v2 with a
\* handler, sync, local, log) this layer sends the command once on the
\* connection it created and then neither reads, writes, checks nor closes
\* it; once the send is acknowledged the handler is called exactly once with
\* the open connection, or the open connection is returned.
C7_Ownership ==
    Handoff =>
      /\ Len(conns) <= 1
      /\ \A i \in 1..Len(conns) :
            LET l == conns[i].log
            IN  /\ conns[i].open
                /\ Len(l) <= 3
                /\ Len(l) >= 1 => l[1] = Event("send", TRUE, SentCommand)
                /\ Len(l) >= 2 => l[2].ev = "check_status"
                /\ Len(l) >= 3 =>
                     (l[3] = Event("handler", TRUE, "") /\ l[2].ok /\ handler)
      /\ status = "returned" =>
           /\ Len(conns) = 1
           /\ SubSeq(conns[1].log, 1, 2) =
                <<Event("send", TRUE, SentCommand), Event("check_status", TRUE, "")>>
           /\ IF handler
              THEN Count(conns[1].log, "handler") = 1 /\ retval = RetNone
              ELSE Len(conns[1].log) = 2 /\ retval = RetConn(1)
      /\ (pc = "done" /\ handler /\ Len(conns) = 1 /\ conns[1].log[2].ok) =>
           Count(conns[1].log, "handler") = 1

C7_Witness ==
    /\ op = "shell" /\ handler /\ status = "returned"
    /\ conns = <<[open |-> TRUE,
                  log |-> <<Event("send", TRUE, "shell:ls"),
                            Event("check_status", TRUE, ""),
                            Event("handler", TRUE, "")>>]>>

Checks(l) == SelectSeq(l, LAMBDA e : e.ev = "check_status")

ReverseSent == Event("send", TRUE, "reverse:forward:tcp:8000:tcp:9000")

Check(ok) == Event("check_status", ok, "")

Closed == Event("close", TRUE, "")

\* C8: reverse checks the status twice on its connection, first the
\* acknowledgement of the command it sent and then the acknowledgement of the
\* forward; it returns True only when both are positive, does not make the
\* second check when the first fails, fails on a negative acknowledgement at
\* either, and has closed the connection in all three outcomes.
C8_Reverse ==
    (op = "reverse" /\ Len(conns) = 1) =>
      LET l == conns[1].log
      IN  /\ Len(Checks(l)) <= 2
          /\ status = "returned" =>
               /\ retval = RetTrue
               /\ l = <<ReverseSent, Check(TRUE), Check(TRUE), Closed>>
               /\ ~conns[1].open
          /\ status = "raised" =>
               /\ \/ l = <<ReverseSent, Check(FALSE), Closed>>
                  \/ l = <<ReverseSent, Check(TRUE), Check(FALSE), Closed>>
               /\ ~conns[1].open
          /\ pc = "done" => status \in {"returned", "raised"}

C8_Witness ==
    /\ op = "reverse" /\ status = "raised" /\ Len(conns) = 1
    /\ conns[1].log = <<ReverseSent, Check(TRUE), Check(FALSE), Closed>>
    /\ ~conns[1].open

(***************************************************************************)
(* The readiness poller.                                                   *)
(***************************************************************************)
Poll == op = "wait_boot_complete"

TimedOut == status = "raised" /\ error = "TimeoutError"

\* Every query so far returned a value that is not ready, none failed.
OnlyNotReady == outcomes \subseteq {"value"}

\* C9 as the spec states it: with every query returning a value that is not
\* ready, the poller never returns True, raises the timeout error only with
\* the clock strictly past the deadline, and with timeout 2 and interval 1
\* raises it after at least 2 time units and at least 2 queries.
C9_Original ==
    (Poll /\ OnlyNotReady) =>
      /\ status # "returned"
      /\ TimedOut => now > timeout
      /\ (TimedOut /\ timeout = 2 /\ timedelta = 1) => (now >= 2 /\ attempts >= 2)

\* C9, amended: with every query returning a value that is not ready, the
\* poller ends by raising the timeout error, never returns True, raises the
\* timeout error only with the clock strictly past the deadline (start time +
\* timeout, computed once at entry), and with timeout 2 and interval 1 raises
\* it after at least 2 time units and at least 1 query: at least 2 queries
\* once a query has ended with the deadline not passed (the poller slept).
C9_Timeout ==
    /\ []((Poll /\ OnlyNotReady) =>
            /\ status # "returned"
            /\ pc # "wbc_enter" => end_time = timeout
            /\ TimedOut => (now > end_time /\ attempts >= 1)
            /\ (TimedOut /\ timeout = 2 /\ timedelta = 1) =>
                 (now >= 2 /\ (sleeps >= 1 => attempts >= 2)))
    /\ <>(Poll => (~OnlyNotReady \/ TimedOut))

C9_Witness ==
    /\ Poll /\ OnlyNotReady /\ TimedOut
    /\ timeout = 2 /\ timedelta = 1
    /\ sleeps >= 1 /\ attempts >= 2 /\ now > 2

\* C10: once the clock has passed start time + timeout the poller starts at
\* most one further query before it terminates, whatever the queries do
\* (return the ready value, return other values, fail with RuntimeError).
C10_BoundedByDeadline == Poll => lateAttempts <= 1

\* C11: the poller returns True exactly when a query returned text whose
\* stripped value is "1", and at the first such query: once a query has
\* returned the ready value the poller is examining it or has returned, also
\* with the clock past the deadline. It ends only after at least one query,
\* whatever the timeout, and it sleeps only after a query returned a value
\* that is not ready with the deadline not passed.
C11_ReadyFirst ==
    Poll =>
      /\ status = "returned" =>
           (retval = RetTrue /\ "ready" \in outcomes /\ Strip(result) = Ready)
      /\ "ready" \in outcomes => (pc = "wbc_check_ready" \/ status = "returned")
      /\ pc = "done" => attempts >= 1
      /\ pc = "wbc_sleep" =>
           /\ "value" \in outcomes /\ Strip(result) # Ready
           /\ now <= end_time /\ timedelta > 0

C11_Witness ==
    /\ Poll /\ status = "returned" /\ retval = RetTrue
    /\ timeout <= 0 /\ now > end_time /\ attempts = 1

(***************************************************************************)
(* The commands over shell.                                                *)
(***************************************************************************)
\* The shell call ended by returning its decoded output.
ShellGaveText ==
    /\ Len(conns) = 1 /\ ~conns[1].open
    /\ Utf8Decode(data) # Utf8Error

Occurs(text, word, i) ==
    /\ i >= 1 /\ i + Len(word) - 1 <= Len(text)
    /\ SubSeq(text, i, i + Len(word) - 1) = word

\* Where word first occurs in text; past the end when it does not occur.
FirstOccurrence(text, word) ==
    IF \E i \in 1..Len(text) : Occurs(text, word, i)
    THEN CHOOSE i \in 1..Len(text) :
            /\ Occurs(text, word, i)
            /\ \A j \in 1..(i - 1) : ~Occurs(text, word, j)
    ELSE Len(text) + 1

\* The first of "Success" and "Failed" in the output is "Success".
ReportsSuccess(text) ==
    /\ FirstOccurrence(text, Success) <= Len(text)
    /\ FirstOccurrence(text, Success) < FirstOccurrence(text, Failed)

ClearFailed == status = "raised" /\ error = "ClearError"

\* C12: clear(package) returns True only when the first of "Success" and
\* "Failed" in the output of `pm clear` is "Success"; when it is not (neither
\* word, or "Failed" first, as in "Failed\n") the call raises ClearError with
\* the package name it was given and the stripped output, and does not return
\* True.
C12_Clear ==
    op = "clear" =>
      /\ status = "returned" => (retval = RetTrue /\ ReportsSuccess(result))
      /\ ClearFailed =>
           /\ ~ReportsSuccess(result)
           /\ retval = [kind |-> "ClearError", package |-> args.package,
                        text |-> Strip(result)]
      /\ (pc = "done" /\ ShellGaveText) =>
           /\ result = Utf8Decode(data)
           /\ ReportsSuccess(result) => status = "returned"
           /\ ~ReportsSuccess(result) => ClearFailed

C12_Witness ==
    /\ op = "clear" /\ ClearFailed /\ ShellGaveText
    /\ Contains(result, Success) /\ Contains(result, Failed)
    /\ retval.package = "org.demo"

(***************************************************************************)
(* root                                                                    *)
(***************************************************************************)
RootSent == Event("send", TRUE, "root:")

ReadToEnd == Event("read_all", TRUE, "")

\* The response was read to the end and decoded.
RootAnswered ==
    /\ Len(conns) = 1
    /\ \E i \in 1..Len(conns[1].log) : conns[1].log[i] = ReadToEnd
    /\ Utf8Decode(data) # Utf8Error

Confirms(text) == FirstOccurrence(text, RootPhrase) <= Len(text)

\* C13: root() sends "root:", reads to the end and decodes; it returns True
\* exactly when the decoded response contains "restarting adbd as root", and
\* without that phrase raises RuntimeError carrying the stripped response and
\* does not return True; the connection is closed on both paths.
C13_Root ==
    (op = "root" /\ Len(conns) = 1) =>
      LET l == conns[1].log
      IN  /\ l # <<>> => l[1] = RootSent
          /\ pc = "done" => (~conns[1].open /\ Count(l, "close") = 1)
          /\ status = "returned" =>
               /\ retval = RetTrue /\ Confirms(result)
               /\ l = <<RootSent, Check(TRUE), ReadToEnd, Closed>>
          /\ (pc = "done" /\ RootAnswered) =>
               /\ result = Utf8Decode(data)
               /\ l = <<RootSent, Check(TRUE), ReadToEnd, Closed>>
               /\ Confirms(result) => status = "returned"
               /\ ~Confirms(result) =>
                    /\ status = "raised" /\ error = "RuntimeError"
                    /\ retval = [kind |-> "message", text |-> Strip(result)]

C13_Witness ==
    /\ op = "root" /\ pc = "done" /\ RootAnswered
    /\ status = "raised" /\ error = "RuntimeError"
    /\ result # <<>> /\ retval.text = Strip(result)
    /\ ~conns[1].open

(***************************************************************************)
(* list_reverses                                                           *)
(***************************************************************************)
ListSent == Event("send", TRUE, "reverse:list-forward")

Received == Event("receive", TRUE, "")

NonEmptyLines(text) == SelectSeq(SplitOn(text, 10), LAMBDA line : line # <<>>)

ThreeWords(line) == Len(SplitWhitespace(line)) = 3

\* C14: list_reverses makes one framed receive, no read to the end, on a
\* connection that is closed before the parsing starts. Empty lines are
\* skipped; when every other line is three words the call returns, in order,
\* one {remote: second word, local: third word} per line; when some
\* non-empty line is not three words (a line of blanks included) the call
\* raises ValueError and returns no list.
C14_ListReverses ==
    (op = "list_reverses" /\ Len(conns) = 1) =>
      LET l == conns[1].log
          ne == NonEmptyLines(result)
      IN  /\ Count(l, "read_all") = 0 /\ Count(l, "receive") <= 1
          /\ pc = "parse" =>
               (~conns[1].open /\ l = <<ListSent, Check(TRUE), Received, Closed>>)
          /\ (pc = "done" /\ Len(l) >= 3 /\ l[3] = Received) =>
               /\ l = <<ListSent, Check(TRUE), Received, Closed>>
               /\ IF \A i \in 1..Len(ne) : ThreeWords(ne[i])
                  THEN /\ status = "returned"
                       /\ retval = RetList([i \in 1..Len(ne) |->
                                     [remote |-> SplitWhitespace(ne[i])[2],
                                      local |-> SplitWhitespace(ne[i])[3]]])
                  ELSE /\ status = "raised" /\ error = "ValueError"
                       /\ retval = NoValue

C14_Witness ==
    /\ op = "list_reverses" /\ status = "raised" /\ error = "ValueError"
    /\ Len(NonEmptyLines(result)) = 2
    /\ ThreeWords(NonEmptyLines(result)[1])
    /\ SplitWhitespace(NonEmptyLines(result)[2]) = <<>>

(***************************************************************************)
(* The line parsers.                                                       *)
(***************************************************************************)
RegexParsers == {"list_features", "list_packages", "get_properties"}

\* The response text reached the parser.
GotText ==
    IF op = "list_reverses"
    THEN Len(conns) = 1 /\ Len(conns[1].log) >= 3 /\ conns[1].log[3] = Received
    ELSE ShellGaveText

\* The lines of the response that match the grammar of the call at hand.
Match(line) ==
    CASE op = "list_features" -> MatchFeature(line)
      [] op = "list_packages" -> MatchPackage(line)
      [] op = "get_properties" -> MatchProperty(line)
      [] OTHER -> NoMatch

MatchingLines(text) == SelectSeq(SplitOn(text, 10), LAMBDA line : Match(line).ok)

\* One entry per key of the matching lines, with the value of the last line
\* that has the key.
LastWins(ms) ==
    [k \in {Match(ms[i]).key : i \in 1..Len(ms)} |->
        LET i == CHOOSE n \in 1..Len(ms) :
                     /\ Match(ms[n]).key = k
                     /\ \A j \in (n + 1)..Len(ms) : Match(ms[j]).key # k
        IN  Match(ms[i]).value]

Expected(text) ==
    LET ms == MatchingLines(text)
    IN  CASE op = "list_packages" ->
               RetList([i \in 1..Len(ms) |-> Match(ms[i]).key])
          [] op = "list_features" -> RetDict(LastWins(ms))
          [] op = "get_properties" ->
               RetDict([k \in DOMAIN LastWins(ms) |-> LastWins(ms)[k].text])

\* C15 as the spec states it: with the response text in hand, no parser
\* (list_features, list_packages, get_properties, list_reverses) fails.
C15_Original ==
    (op \in RegexParsers \cup {"list_reverses"} /\ pc = "done" /\ GotText) =>
      status = "returned"

\* C15, amended: list_features, list_packages and get_properties never fail
\* on the response text: they return a result built only from the lines that
\* match their grammar (for the two dictionaries the last line with a key
\* gives its value), list_packages in the order of the output with
\* duplicates kept. list_reverses discards empty lines only: it returns when
\* every non-empty line is three words and raises ValueError otherwise.
C15_Parsers ==
    /\ (op \in RegexParsers /\ pc = "done" /\ GotText) =>
         /\ status = "returned"
         /\ result = Utf8Decode(data)
         /\ retval = Expected(result)
    /\ (op = "list_reverses" /\ pc = "done" /\ GotText) =>
         /\ status = "returned" <=>
              \A i \in 1..Len(NonEmptyLines(result)) :
                  ThreeWords(NonEmptyLines(result)[i])
         /\ status # "returned" => (status = "raised" /\ error = "ValueError")

C15_Witness ==
    /\ op = "list_packages" /\ status = "returned" /\ GotText
    /\ Len(retval.list) = 3 /\ retval.list[1] = retval.list[3]
    /\ Len(SplitOn(result, 10)) > 4

(***************************************************************************)
(* One channel, one request.                                               *)
(***************************************************************************)
SingleCommand ==
    {"shell", "shell_v2", "sync", "screencap", "list_reverses", "local", "log",
     "reboot", "remount", "reverse", "root"}

\* The command string of the call at hand.
Request ==
    CASE op = "shell" -> "shell:" \o args.cmd
      [] op = "shell_v2" -> "shell,v2:" \o args.cmd
      [] op = "sync" -> "sync:"
      [] op = "screencap" -> "shell:/system/bin/screencap -p"
      [] op = "list_reverses" -> "reverse:list-forward"
      [] op = "local" -> IF args.path.scheme = ""
                         THEN "localfilesystem:" \o args.path.name
                         ELSE args.path.scheme \o ":" \o args.path.name
      [] op = "log" -> "log:" \o args.name
      [] op = "reboot" -> "reboot:"
      [] op = "remount" -> "remount:"
      [] op = "reverse" -> "reverse:forward:" \o args.remote \o ":" \o args.local
      [] op = "root" -> "root:"
      [] op = "transport" -> "host:transport:" \o args.serial
      [] OTHER -> ""

Requested == Event("send", TRUE, Request)

\* C16: every single-command operation has at most one connection, and
\* exactly one when it returns; the first event on the connection is the send
\* of the operation's command string and there is no second send.
\* transport() keeps to the connection it was given: one send of
\* "host:transport:<serial>", no read, no close, and it returns that
\* connection.
C16_OneRequest ==
    /\ op \in SingleCommand =>
         /\ Len(conns) <= 1
         /\ status = "returned" =>
              (Len(conns) = 1 /\ Count(conns[1].log, "send") = 1)
         /\ Len(conns) = 1 =>
              /\ conns[1].log # <<>> => conns[1].log[1] = Requested
              /\ Count(conns[1].log, "send") <= 1
    /\ op = "transport" =>
         /\ Len(conns) = 1 /\ conns[1].open
         /\ conns[1].log \in {<<>>, <<Requested, Check(TRUE)>>,
                              <<Requested, Check(FALSE)>>}
         /\ pc \in {"return", "done"} => conns[1].log # <<>>
         /\ status = "returned" =>
              (retval = RetConn(1) /\ conns[1].log = <<Requested, Check(TRUE)>>)

C16_Witness ==
    /\ op = "transport" /\ status = "returned" /\ retval = RetConn(1)
    /\ conns[1].open
    /\ conns[1].log = <<Event("send", TRUE, "host:transport:emulator-5554"),
                        Check(TRUE)>>

(***************************************************************************)
(* The poller after a failed query.                                        *)
(***************************************************************************)
Caught == Poll /\ pc = "wbc_except"

\* C17: when a query of the poller fails with RuntimeError the error is not
\* surfaced and the next step starts another query, with no sleep and no
\* look at the clock in between; the deadline is examined, the poller sleeps
\* and the timeout error is raised only after a query that returned a value.
C17_RetryAtOnce ==
    /\ [](Caught => (status = "running" /\ error = "" /\ "RuntimeError" \in outcomes))
    /\ [][Caught => (pc' = "wbc_query" /\ status' = "running"
                     /\ sleeps' = sleeps /\ now' = now)]_vars
    /\ [][(Poll /\ pc' = "wbc_check_deadline") => pc = "wbc_check_ready"]_vars
    /\ [][(Poll /\ pc' = "wbc_check_ready") => pc = "shell_decode"]_vars
    /\ [][(Poll /\ (pc' = "wbc_sleep" \/ TimedOut')) => pc = "wbc_check_deadline"]_vars

C17_Witness ==
    /\ Poll /\ pc = "shell_create" /\ status = "running"
    /\ outcomes = {"RuntimeError"} /\ attempts = 2
    /\ sleeps = 0 /\ now > end_time

(***************************************************************************)
(* The operations that are not implemented.                                *)
(***************************************************************************)
\* C18: framebuffer() and logcat() create no connection, send nothing, never
\* return a value, and end by raising the error that says "not implemented".
C18_NotSupported ==
    op \in {"framebuffer", "logcat"} =>
      /\ conns = <<>>
      /\ status # "returned"
      /\ pc = "done" => (status = "raised" /\ error = "NotImplementedError")

(***************************************************************************)
(* shell without a handler.                                                *)
(***************************************************************************)
ShellPlain == op = "shell" /\ ~handler

ShellDone == <<Requested, Check(TRUE), ReadToEnd, Closed>>

\* C19: shell without a handler sends "shell:<cmd>", reads to the end, closes
\* the connection and only then decodes: the connection is closed once, a
\* read to the end is the third event and the close the fourth, at the
\* decoding and after a failed decoding the connection is closed with nothing
\* read or closed after, and the call returns the decoded text only when the
\* decoding succeeded.
C19_CloseThenDecode ==
    (ShellPlain /\ Len(conns) = 1) =>
      LET l == conns[1].log
      IN  /\ Count(l, "close") <= 1 /\ Len(l) <= 4
          /\ \A i \in 1..Len(l) :
               /\ l[i].ev = "read_all" => i = 3
               /\ l[i].ev = "close" => (i = 4 /\ l[3] = ReadToEnd)
          /\ pc = "shell_decode" => (l = ShellDone /\ ~conns[1].open)
          /\ (pc = "done" /\ error = "UnicodeDecodeError") =>
               /\ l = ShellDone /\ ~conns[1].open
               /\ Utf8Decode(data) = Utf8Error /\ retval = NoValue
          /\ status = "returned" =>
               /\ l = ShellDone /\ ~conns[1].open
               /\ Utf8Decode(data) # Utf8Error
               /\ retval = RetText(Utf8Decode(data))

C19_Witness ==
    /\ ShellPlain /\ status = "raised" /\ error = "UnicodeDecodeError"
    /\ Len(conns) = 1 /\ conns[1].log = ShellDone /\ ~conns[1].open

(***************************************************************************)
(* The connections of the poller.                                          *)
(***************************************************************************)
OpenConnections == Len(StillOpen(conns))

\* C20: during wait_boot_complete at most one connection of the poller is
\* open at any moment: none is open when a query creates its connection, also
\* after a query that failed with RuntimeError, and none is open when the
\* poller has ended (queries return a value or fail with RuntimeError).
C20_OneOpenConnection ==
    (Poll /\ outcomes \subseteq {"ready", "value", "RuntimeError"}) =>
      /\ OpenConnections <= 1
      /\ pc \in {"shell_create", "done"} => OpenConnections = 0

====
